---- MODULE Spec2Model ----
(***************************************************************************)
(* Model of sl29.games._2048: the rules engine of the 2048 game.           *)
(*                                                                         *)
(* A board (plateau) is a sequence of TAILLE rows, each a sequence of      *)
(* TAILLE cells; 0 is the empty cell.  Python lists are indexed from 0,    *)
(* TLA+ sequences from 1: the helpers py_get, py_insert and py_pop take    *)
(* Python indices, and the coordinates of _get_cases_vides are kept        *)
(* 1-based (row, column) pairs.                                            *)
(*                                                                         *)
(* Four specifications share the variables:                                *)
(*   SpecLigne    the line primitive of _deplacer_gauche on one line,      *)
(*                applied repeatedly;                                      *)
(*   SpecCoup     one jouer_coup call, and _partie_terminee, on boards     *)
(*                drawn from a bounded family of well-formed boards;       *)
(*   SpecPlateau  successive jouer_coup calls on boards close to the end   *)
(*                of a game;                                               *)
(*   SpecPartie   nouvelle_partie followed by jouer_coup calls.            *)
(***************************************************************************)
EXTENDS Integers, Sequences, FiniteSets

VARIABLES
    pc,             \* "debut": no board yet; "partie": the caller holds a board; "ligne": line runs
    plateau,        \* the board the caller holds (the last one returned)
    score,          \* the score returned by nouvelle_partie
    ancient,        \* jouer_coup: the board passed to the last call
    result,         \* jouer_coup: the board after the directional move, before the spawn
    direction,      \* jouer_coup: the direction of the last call
    nouveaux_points,\* jouer_coup: the points returned by the last call
    est_fini,       \* jouer_coup: the flag returned by the last call
    fini_precedent, \* the flag returned by the call before the last one
    coups,          \* number of jouer_coup calls made
    changements,    \* number of those calls whose directional move changed the board
    verdict,        \* "aucun", or what _partie_terminee returned on plateau: "vrai" / "faux"
    ligne,          \* line runs: the current line
    ligne_avant,    \* line runs: the line the last application was given
    points_ligne,   \* line runs: the points of the last application
    applications    \* line runs: number of applications made

vars == <<pc, plateau, score, ancient, result, direction, nouveaux_points, est_fini,
          fini_precedent, coups, changements, verdict,
          ligne, ligne_avant, points_ligne, applications>>

vars_plateau == <<plateau, score, ancient, result, direction, nouveaux_points, est_fini,
                  fini_precedent, coups, changements, verdict>>

vars_ligne == <<ligne, ligne_avant, points_ligne, applications>>

(***************************************************************************)
(* Program constant and bounds of the model.                               *)
(***************************************************************************)
TAILLE == 4

\* Cell values of the drawn lines: 0 and 2^1 .. 2^MaxExp.
MaxExp == 3
\* Successive applications of the line primitive in a line run.
MaxApplications == 3
\* Cells of the base board that a board drawn for one call may change.
MaxModifs == 2
\* Successive jouer_coup calls on a board close to the end of a game.
MaxCoups == 3
\* jouer_coup calls after nouvelle_partie.
MaxCoupsPartie == 1
\* random.random() is drawn as n / Precision, n in 0 .. Precision-1.
Precision == 4

RECURSIVE Puissance2(_)
Puissance2(e) == IF e = 0 THEN 1 ELSE 2 * Puissance2(e - 1)

Valeurs == {0} \cup {Puissance2(e) : e \in 1..MaxExp}

Directions == {"g", "d", "h", "b"}

(***************************************************************************)
(* Python list operations, with Python (0-based, possibly negative)        *)
(* indices.                                                                *)
(***************************************************************************)
py_get(l, i) == IF i < 0 THEN l[Len(l) + i + 1] ELSE l[i + 1]

py_insert(l, i, x) ==
    LET n == Len(l)
        k == IF i < 0 THEN (IF n + i < 0 THEN 0 ELSE n + i)
             ELSE (IF i > n THEN n ELSE i)
    IN SubSeq(l, 1, k) \o <<x>> \o SubSeq(l, k + 1, n)

py_pop(l, i) == SubSeq(l, 1, i) \o SubSeq(l, i + 2, Len(l))

\* A function over 1..n as a sequence value (a Python list is a value, not a rule).
liste(f) == SubSeq(f, 1, Len(f))

RECURSIVE Somme(_)
Somme(l) == IF l = <<>> THEN 0 ELSE Head(l) + Somme(Tail(l))

SommePlateau(p) == Somme(liste([i \in 1..Len(p) |-> Somme(p[i])]))

(***************************************************************************)
(* Private functions.                                                      *)
(***************************************************************************)
_creer_plateau_vide == liste([i \in 1..TAILLE |-> liste([j \in 1..TAILLE |-> 0])])

\* The empty cells in row-major order.
RECURSIVE cases_vides_depuis(_, _)
cases_vides_depuis(p, k) ==
    IF k > TAILLE * TAILLE THEN <<>>
    ELSE LET i == ((k - 1) \div TAILLE) + 1
             j == ((k - 1) % TAILLE) + 1
         IN (IF p[i][j] = 0 THEN <<(<<i, j>>)>> ELSE <<>>) \o cases_vides_depuis(p, k + 1)

_get_cases_vides(p) == cases_vides_depuis(p, 1)

\* int(random.random()) for the draw n / Precision: truncation toward zero.
py_int_random(n) == n \div Precision

\* 2+2*int(2*random.random()): the upper half of the draws gives 4.
valeur_tuile_double(n) == 2 + 2 * ((2 * n) \div Precision)

\* 2+2*int(random.random())
valeur_tuile(n) == 2 + 2 * py_int_random(n)

\* random.choice over every cell of the grid, empty or not.
choix_cases_toutes(p) == (1..TAILLE) \X (1..TAILLE)

\* random.choice(_get_cases_vides(result)): the cells the spawn may pick.
choix_cases(p) == {_get_cases_vides(p)[k] : k \in 1..Len(_get_cases_vides(p))}

\* The boards _ajouter_tuile may return, over all random outcomes.
_ajouter_tuile(p) ==
    IF _get_cases_vides(p) = <<>> THEN {p}
    ELSE {[p EXCEPT ![c[1]][c[2]] = v] :
              c \in choix_cases(p), v \in {valeur_tuile(n) : n \in 0..(Precision - 1)}}

_supprimer_zeros(l) == SelectSeq(l, LAMBDA v : v # 0)

\* The loop of _fusionner with `last = merged value` in place of `last = 0`.
RECURSIVE fusionner_boucle_cascade(_, _, _, _, _)
fusionner_boucle_cascade(l, last, points, lenght, v) ==
    IF ~(v < lenght) THEN <<l, points>>
    ELSE IF py_get(l, v) = last
         THEN LET x  == py_get(l, v - 1) * 2
                  l1 == py_insert(l, v - 1, x)
                  l2 == py_pop(l1, v)
                  l3 == py_pop(l2, v)
              IN fusionner_boucle_cascade(l3, x, points + x, lenght - 1, v)
         ELSE fusionner_boucle_cascade(l, py_get(l, v), points, lenght, v + 1)

\* The loop of _fusionner without `last = ligne[v]`: last stays 0.
RECURSIVE fusionner_boucle_sans_last(_, _, _, _, _)
fusionner_boucle_sans_last(l, last, points, lenght, v) ==
    IF ~(v < lenght) THEN <<l, points>>
    ELSE IF py_get(l, v) = last
         THEN LET x  == py_get(l, v - 1) * 2
                  l1 == py_insert(l, v - 1, x)
                  l2 == py_pop(l1, v)
                  l3 == py_pop(l2, v)
              IN fusionner_boucle_sans_last(l3, 0, points + x, lenght - 1, v)
         ELSE fusionner_boucle_sans_last(l, last, points, lenght, v + 1)

\* The loop of _fusionner with a single pop after the insert.
RECURSIVE fusionner_boucle_un_pop(_, _, _, _, _)
fusionner_boucle_un_pop(l, last, points, lenght, v) ==
    IF ~(v < lenght) THEN <<l, points>>
    ELSE IF py_get(l, v) = last
         THEN LET x  == py_get(l, v - 1) * 2
                  l1 == py_insert(l, v - 1, x)
                  l2 == py_pop(l1, v)
              IN fusionner_boucle_un_pop(l2, 0, points + x, lenght - 1, v)
         ELSE fusionner_boucle_un_pop(l, py_get(l, v), points, lenght, v + 1)

\* The loop of _fusionner with the merged cell worth three times the tile.
RECURSIVE fusionner_boucle_triple(_, _, _, _, _)
fusionner_boucle_triple(l, last, points, lenght, v) ==
    IF ~(v < lenght) THEN <<l, points>>
    ELSE IF py_get(l, v) = last
         THEN LET x  == py_get(l, v - 1) * 3
                  l1 == py_insert(l, v - 1, x)
                  l2 == py_pop(l1, v)
                  l3 == py_pop(l2, v)
              IN fusionner_boucle_triple(l3, 0, points + x, lenght - 1, v)
         ELSE fusionner_boucle_triple(l, py_get(l, v), points, lenght, v + 1)

\* The while loop of _fusionner from the state (ligne, last, points, lenght, v).
RECURSIVE fusionner_boucle(_, _, _, _, _)
fusionner_boucle(l, last, points, lenght, v) ==
    IF ~(v < lenght) THEN <<l, points>>
    ELSE IF py_get(l, v) = last
         THEN LET x  == py_get(l, v - 1) * 2
                  l1 == py_insert(l, v - 1, x)
                  l2 == py_pop(l1, v)
                  l3 == py_pop(l2, v)
              IN fusionner_boucle(l3, 0, points + x, lenght - 1, v)
         ELSE fusionner_boucle(l, py_get(l, v), points, lenght, v + 1)

\* (ligne, points)
_fusionner(l) == fusionner_boucle(l, 0, 0, Len(l), 0)

RECURSIVE _completer_zeros(_)
_completer_zeros(l) == IF Len(l) < TAILLE THEN _completer_zeros(Append(l, 0)) ELSE l

\* The body of the loop of _deplacer_gauche on one row: (l_finale, points).
ligne_gauche(l) ==
    LET l_sans_zero == _supprimer_zeros(l)
        fusion      == _fusionner(l_sans_zero)
    IN <<_completer_zeros(fusion[1]), fusion[2]>>

\* (nouveau_plateau, nouveaux_points)
_deplacer_gauche(p) ==
    LET lignes == liste([i \in 1..Len(p) |-> ligne_gauche(p[i])])
    IN <<liste([i \in 1..Len(p) |-> lignes[i][1]]),
         Somme(liste([i \in 1..Len(p) |-> lignes[i][2]]))>>

_inverser_lignes(p) ==
    liste([i \in 1..Len(p) |-> liste([j \in 1..Len(p[i]) |-> p[i][Len(p[i]) + 1 - j]])])

_deplacer_droite(p) ==
    LET p_inverse == _inverser_lignes(p)
        gauche    == _deplacer_gauche(p_inverse)
    IN <<_inverser_lignes(gauche[1]), gauche[2]>>

_transposer(p) == liste([n \in 1..TAILLE |-> liste([i \in 1..Len(p) |-> p[i][n]])])

_deplacer_haut(p) ==
    LET p_transpose == _transposer(p)
        gauche      == _deplacer_gauche(p_transpose)
    IN <<_transposer(gauche[1]), gauche[2]>>

_deplacer_bas(p) ==
    LET p_transpose == _transposer(p)
        droite      == _deplacer_droite(p_transpose)
    IN <<_transposer(droite[1]), droite[2]>>

\* _partie_terminee without its scans: a full board is over.
partie_terminee_pleine(p) == _get_cases_vides(p) = <<>>

\* _partie_terminee without its first scan (the columns).
partie_terminee_sans_colonnes(p) ==
    IF _get_cases_vides(p) # <<>> THEN FALSE
    ELSE IF \E n \in 1..TAILLE : \E v \in 1..TAILLE :
                p[n][v] = (IF v = 1 THEN 0 ELSE p[n][v - 1]) THEN FALSE
    ELSE TRUE

\* Each scan starts from last = 0 and compares every cell of the line with last.
_partie_terminee(p) ==
    IF _get_cases_vides(p) # <<>> THEN FALSE
    ELSE IF \E n \in 1..TAILLE : \E v \in 1..TAILLE :
                p[v][n] = (IF v = 1 THEN 0 ELSE p[v - 1][n]) THEN FALSE
    ELSE IF \E n \in 1..TAILLE : \E v \in 1..TAILLE :
                p[n][v] = (IF v = 1 THEN 0 ELSE p[n][v - 1]) THEN FALSE
    ELSE TRUE

(***************************************************************************)
(* Line runs: _deplacer_gauche on a one-row grid, applied repeatedly.      *)
(***************************************************************************)
RECURSIVE Lignes(_)
Lignes(n) == IF n = 0 THEN {<<>>}
             ELSE {Append(l, v) : l \in Lignes(n - 1), v \in Valeurs}

LignesInitiales == UNION {Lignes(n) : n \in 0..TAILLE}

InitLigne ==
    /\ pc = "ligne"
    /\ ligne \in LignesInitiales
    /\ ligne_avant = <<>>
    /\ points_ligne = 0
    /\ applications = 0
    /\ plateau = <<>> /\ score = 0 /\ ancient = <<>> /\ result = <<>>
    /\ direction = "" /\ nouveaux_points = 0 /\ est_fini = FALSE
    /\ fini_precedent = FALSE /\ coups = 0 /\ changements = 0 /\ verdict = "aucun"

appliquer_ligne ==
    /\ pc = "ligne"
    /\ applications < MaxApplications
    /\ LET r == _deplacer_gauche(<<ligne>>)
       IN /\ ligne' = r[1][1]
          /\ points_ligne' = r[2]
    /\ ligne_avant' = ligne
    /\ applications' = applications + 1
    /\ UNCHANGED <<pc, vars_plateau>>

NextLigne == appliquer_ligne

SpecLigne == InitLigne /\ [][NextLigne]_vars

(***************************************************************************)
(* Public functions.                                                       *)
(***************************************************************************)
\* The (result, nouveaux_points) of the directional move jouer_coup selects.
deplacer(p, d) ==
    CASE d = "g" -> _deplacer_gauche(p)
      [] d = "d" -> _deplacer_droite(p)
      [] d = "h" -> _deplacer_haut(p)
      [] d = "b" -> _deplacer_bas(p)
      [] OTHER   -> <<p, 0>>

\* Lines 48-50 with a spawn on every call.
plateaux_retournes_toujours(avant, apres) == _ajouter_tuile(apres)

\* Lines 48-50: the boards jouer_coup may return for `ancient` and `result`.
plateaux_retournes(avant, apres) ==
    IF avant = apres THEN {apres} ELSE _ajouter_tuile(apres)

nouvelle_partie ==
    /\ pc = "debut"
    /\ plateau' \in UNION {_ajouter_tuile(p1) : p1 \in _ajouter_tuile(_creer_plateau_vide)}
    /\ score' = 0
    /\ pc' = "partie"
    /\ UNCHANGED <<ancient, result, direction, nouveaux_points, est_fini, fini_precedent,
                   coups, changements, verdict, vars_ligne>>

jouer_coup(d) ==
    /\ pc = "partie"
    /\ LET dep == deplacer(plateau, d)
       IN /\ ancient' = plateau
          /\ result' = dep[1]
          /\ nouveaux_points' = dep[2]
          /\ plateau' \in plateaux_retournes(plateau, dep[1])
          /\ est_fini' = _partie_terminee(dep[1])
          /\ changements' = changements + (IF plateau = dep[1] THEN 0 ELSE 1)
    /\ direction' = d
    /\ fini_precedent' = est_fini
    /\ coups' = coups + 1
    /\ verdict' = "aucun"
    /\ UNCHANGED <<pc, score, vars_ligne>>

\* _partie_terminee called on the board the caller holds.
appel_partie_terminee ==
    /\ pc = "partie"
    /\ verdict = "aucun"
    /\ verdict' = (IF _partie_terminee(plateau) THEN "vrai" ELSE "faux")
    /\ UNCHANGED <<pc, plateau, score, ancient, result, direction, nouveaux_points,
                   est_fini, fini_precedent, coups, changements, vars_ligne>>

(***************************************************************************)
(* Games: nouvelle_partie, then jouer_coup calls.                          *)
(***************************************************************************)
InitPartie ==
    /\ pc = "debut"
    /\ plateau = <<>> /\ score = 0 /\ ancient = <<>> /\ result = <<>>
    /\ direction = "" /\ nouveaux_points = 0 /\ est_fini = FALSE
    /\ fini_precedent = FALSE /\ coups = 0 /\ changements = 0 /\ verdict = "aucun"
    /\ ligne = <<>> /\ ligne_avant = <<>> /\ points_ligne = 0 /\ applications = 0

NextPartie ==
    \/ nouvelle_partie
    \/ (coups < MaxCoupsPartie /\ \E d \in Directions : jouer_coup(d))

SpecPartie == InitPartie /\ [][NextPartie]_vars

(***************************************************************************)
(* Drawn boards: the full board without equal neighbours (2 and 4          *)
(* alternating), with some cells replaced by a value of ValeursPlateau.    *)
(* It is over, and the boards around it are the ones where the terminal    *)
(* check, the last moves and the last spawns of a game are decided.        *)
(***************************************************************************)
ValeursPlateau == {0, 2, 4, 8}

Damier ==
    liste([i \in 1..TAILLE |-> liste([j \in 1..TAILLE |-> IF (i + j) % 2 = 0 THEN 2 ELSE 4])])

RECURSIVE Modifies(_)
Modifies(n) ==
    IF n = 0 THEN {Damier}
    ELSE Modifies(n - 1) \cup
         {[p EXCEPT ![i][j] = v] :
              p \in Modifies(n - 1), i \in 1..TAILLE, j \in 1..TAILLE, v \in ValeursPlateau}

InitSurPlateaux(plateaux) ==
    /\ pc = "partie"
    /\ plateau \in plateaux
    /\ score = 0 /\ ancient = <<>> /\ result = <<>>
    /\ direction = "" /\ nouveaux_points = 0 /\ est_fini = FALSE
    /\ fini_precedent = FALSE /\ coups = 0 /\ changements = 0 /\ verdict = "aucun"
    /\ ligne = <<>> /\ ligne_avant = <<>> /\ points_ligne = 0 /\ applications = 0

(***************************************************************************)
(* One call: jouer_coup once, and _partie_terminee, on every board with    *)
(* at most MaxModifs cells replaced.                                       *)
(***************************************************************************)
InitCoup == InitSurPlateaux(Modifies(MaxModifs))

NextCoup ==
    \/ (coups = 0 /\ \E d \in Directions : jouer_coup(d))
    \/ appel_partie_terminee

SpecCoup == InitCoup /\ [][NextCoup]_vars

(***************************************************************************)
(* Successive calls: up to MaxCoups jouer_coup calls, each on the board    *)
(* the previous one returned, from every board with at most one cell       *)
(* replaced.                                                               *)
(***************************************************************************)
InitPlateau == InitSurPlateaux(Modifies(1))

NextPlateau == coups < MaxCoups /\ \E d \in Directions : jouer_coup(d)

SpecPlateau == InitPlateau /\ [][NextPlateau]_vars

(***************************************************************************)
(* Notions the properties are stated with.                                 *)
(***************************************************************************)
Cellules == (1..TAILLE) \X (1..TAILLE)

EstPuissanceDe2(v) == \E e \in 1..16 : v = Puissance2(e)

BienForme(p) ==
    /\ Len(p) = TAILLE
    /\ \A i \in 1..TAILLE :
          /\ Len(p[i]) = TAILLE
          /\ \A j \in 1..TAILLE : p[i][j] = 0 \/ EstPuissanceDe2(p[i][j])

CasesOccupees(p) == {c \in Cellules : p[c[1]][c[2]] # 0}

Plein(p) == \A c \in Cellules : p[c[1]][c[2]] # 0

\* Two neighbours of a row, or of a column, hold the same value.
PaireAdjacente(p) ==
    \/ \E i \in 1..TAILLE : \E j \in 1..(TAILLE - 1) : p[i][j] = p[i][j + 1]
    \/ \E i \in 1..(TAILLE - 1) : \E j \in 1..TAILLE : p[i][j] = p[i + 1][j]

\* The terminal state of the rules: full, and nothing left to merge.
Terminal(p) == Plein(p) /\ ~PaireAdjacente(p)

\* q is p with one tile of value 2 or 4 put on a cell that was empty in p.
UneTuileAjoutee(p, q) ==
    \E c \in Cellules :
        /\ p[c[1]][c[2]] = 0
        /\ q[c[1]][c[2]] \in {2, 4}
        /\ \A d \in Cellules \ {c} : q[d[1]][d[2]] = p[d[1]][d[2]]

\* The single-pass rule on a line without zeros: the output is built from left
\* to right, a pair of equal neighbours gives one doubled cell, and the scan
\* resumes after the pair, so a doubled cell is never merged again.
RECURSIVE RegleFusion(_)
RegleFusion(c) ==
    IF Len(c) < 2 THEN <<c, 0>>
    ELSE IF c[1] = c[2]
         THEN LET reste == RegleFusion(SubSeq(c, 3, Len(c)))
              IN <<(<<2 * c[1]>>) \o reste[1], 2 * c[1] + reste[2]>>
         ELSE LET reste == RegleFusion(Tail(c))
              IN <<(<<c[1]>>) \o reste[1], reste[2]>>

RegleLigne(l) ==
    LET compacte == SelectSeq(l, LAMBDA v : v # 0)
        fusion   == RegleFusion(compacte)
    IN <<fusion[1] \o [k \in 1..(TAILLE - Len(fusion[1])) |-> 0], fusion[2]>>

SansVoisinsEgaux(l) ==
    \A k \in 1..(Len(l) - 1) : l[k] # 0 => l[k] # l[k + 1]

(***************************************************************************)
(* Properties.                                                             *)
(***************************************************************************)

\* C1: the flag jouer_coup returns is the terminal check of the board it
\* returns (the post-spawn board): true exactly when that board is full and
\* has no two equal neighbours.  Violated: the flag is computed on `result`,
\* before the spawn.
C1_DrapeauSurPlateauRetourne ==
    (pc = "partie" /\ coups > 0) => (est_fini <=> Terminal(plateau))

\* C2: when the directional move leaves the board as it was, jouer_coup
\* spawns nothing and returns a board equal to its input; when the move
\* changes the board, the returned board is the moved board plus exactly
\* one tile on a cell that was empty.
C2_AjoutSeulementSiChange ==
    (pc = "partie" /\ coups > 0) =>
        IF result = ancient
        THEN plateau = ancient
        ELSE UneTuileAjoutee(result, plateau)

\* C2 witness: a call whose move changed nothing, on a board that had an
\* empty cell a tile could have been put on.
C2_Temoin ==
    /\ pc = "partie" /\ coups > 0
    /\ result = ancient
    /\ ~Plein(ancient)
    /\ plateau = ancient

C4_LigneSelonRegle ==
    (pc = "ligne" /\ applications > 0) =>
        /\ ligne = RegleLigne(ligne_avant)[1]
        /\ points_ligne = RegleLigne(ligne_avant)[2]
        /\ (ligne_avant = <<2, 2, 2, 2>> => (ligne = <<4, 4, 0, 0>> /\ points_ligne = 8))

\* C4 witness: the line [2,2,2,2] was given and [4,4,0,0] with 8 points came out.
C4_Temoin ==
    /\ pc = "ligne" /\ applications = 1
    /\ ligne_avant = <<2, 2, 2, 2>>
    /\ ligne = <<4, 4, 0, 0>>
    /\ points_ligne = 8

\* C5: _partie_terminee returns true exactly on the boards that are full and
\* have no two equal neighbours in a row or a column.
C5_TermineeSelonRegle ==
    (pc = "partie" /\ verdict # "aucun") => ((verdict = "vrai") <=> Terminal(plateau))

\* C5 witness: _partie_terminee answered false on a full board, whose only
\* equal neighbours are in a column.
C5_Temoin ==
    /\ pc = "partie" /\ verdict = "faux"
    /\ Plein(plateau)
    /\ \A i \in 1..TAILLE : SansVoisinsEgaux(plateau[i])

\* C6: nouvelle_partie returns a well-sized board with exactly two tiles,
\* each 2 or 4, and the score 0.
C6_NouvellePartie ==
    (pc = "partie" /\ coups = 0) =>
        /\ Len(plateau) = TAILLE
        /\ \A i \in 1..TAILLE : Len(plateau[i]) = TAILLE
        /\ Cardinality(CasesOccupees(plateau)) = 2
        /\ \A c \in CasesOccupees(plateau) : plateau[c[1]][c[2]] \in {2, 4}
        /\ score = 0

\* C6 witness: a new game whose two tiles are neighbours.
C6_Temoin ==
    /\ pc = "partie" /\ coups = 0
    /\ plateau[1][1] # 0 /\ plateau[1][2] # 0

\* C7: each directional move, before any spawn, keeps the sum of the cells.
C7_SommeConservee ==
    (pc = "partie" /\ coups > 0) => SommePlateau(result) = SommePlateau(ancient)

\* C7 witness: a move that merged tiles in more than one line.
C7_Temoin ==
    /\ pc = "partie" /\ coups > 0
    /\ nouveaux_points > 0
    /\ Cardinality(CasesOccupees(result)) + 2 <= Cardinality(CasesOccupees(ancient))

\* C8 as stated: after two successive applications of the line primitive no
\* two neighbours of the line are equal and non-empty.  Violated by
\* [2,2,4,8] -> [4,4,8,0] -> [8,8,0,0].
C8_DeuxApplications ==
    (pc = "ligne" /\ applications = 2) => SansVoisinsEgaux(ligne)

\* C8 amended: after three successive applications of the line primitive no
\* two neighbours of the line are equal and non-empty.
C8_TroisApplications ==
    (pc = "ligne" /\ applications >= 3) => SansVoisinsEgaux(ligne)

\* C8 witness: a third application that still had a pair to merge.
C8_Temoin ==
    /\ pc = "ligne" /\ applications = 3
    /\ points_ligne > 0
    /\ ~SansVoisinsEgaux(ligne_avant)

\* C9: once a call has returned est_fini = true, every later call returns
\* the same board, 0 points and est_fini = true.
C9_FinAbsorbante ==
    [][(pc = "partie" /\ coups > 0 /\ est_fini) =>
           (plateau' = plateau /\ nouveaux_points' = 0 /\ est_fini')]_vars

\* C9 witness: a call answered est_fini = true, and so did the call after it.
C9_Temoin ==
    /\ pc = "partie" /\ coups >= 2
    /\ fini_precedent /\ est_fini
    /\ plateau = ancient /\ nouveaux_points = 0

====
